---- MODULE Spec2Model ----
(***************************************************************************)
(* WorkerOutgoingTransfersModule                                           *)
(* (src/static/js/modules/worker_outgoing_transfers.js): one line per      *)
(* worker on a chart surface, one legend item per worker, and the legend   *)
(* toggle that shows or hides a worker's line.                             *)
(*                                                                         *)
(* Strings are sequences of one-character strings, so that sanitization,   *)
(* collation and concatenation are computed character by character.        *)
(* BaseModule (base.js) and the helpers of utils.js are imported by the   *)
(* module; what it needs of them follows the specification's description. *)
(***************************************************************************)
EXTENDS Integers, Sequences, FiniteSets, TLC

VARIABLES data, svg, legend, last

vars == <<data, svg, legend, last>>

(* The largest number of worker keys of a dataset. *)
MaxWorkers == 3

(***************************************************************************)
(* Inputs                                                                  *)
(***************************************************************************)

(* Worker names that occur as keys of this.data.transfers.  None is a     *)
(* canonical array index, so Object.keys / Object.entries list them in    *)
(* insertion order.                                                       *)
WorkerNames ==
    { <<"b">>, <<"a">>, <<"a", ".", "1">>, <<"a", ":", "1">>, <<"a", "1">> }

(* The point sequences a worker may carry: [timestamp, value] pairs. *)
PointSeqs == { <<>>, << <<0, 1>>, <<1, 2>> >> }

(* this.data.transfers as the sequence of its [worker, points] entries in *)
(* key order; the keys of an object are pairwise distinct.                *)
Transfers ==
    { t \in UNION { [1..n -> WorkerNames \X PointSeqs] : n \in 0..MaxWorkers } :
        \A i, j \in DOMAIN t : i # j => t[i][1] # t[j][1] }

(***************************************************************************)
(* Helpers of utils.js                                                     *)
(***************************************************************************)

(* The characters an element id keeps. *)
SafeChars == { "a", "b", "1", "_", "-" }

(* escapeWorkerId(worker): every character that is not safe in an element *)
(* id is replaced by an underscore.                                       *)
escapeWorkerId(worker) ==
    [i \in 1..Len(worker) |-> IF worker[i] \in SafeChars THEN worker[i] ELSE "_"]

(* getWorkerColor(worker, idx): a pure function of its two arguments,     *)
(* kept as the uninterpreted application, so two colors are equal only    *)
(* when both arguments are.                                               *)
getWorkerColor(worker, idx) == [worker |-> worker, idx |-> idx]

(***************************************************************************)
(* String.prototype.localeCompare                                          *)
(***************************************************************************)

(* Primary collation weight of a character (root collation: punctuation   *)
(* _ - : . before digits before letters).                                 *)
CollationWeight(c) ==
    CASE c = "_" -> 1
      [] c = "-" -> 2
      [] c = ":" -> 3
      [] c = "." -> 4
      [] c = "1" -> 5
      [] c = "a" -> 6
      [] c = "b" -> 7

RECURSIVE localeCompare(_, _)
(* a.localeCompare(b): negative, zero or positive. *)
localeCompare(a, b) ==
    IF a = <<>> /\ b = <<>> THEN 0
    ELSE IF a = <<>> THEN -1
    ELSE IF b = <<>> THEN 1
    ELSE IF CollationWeight(Head(a)) < CollationWeight(Head(b)) THEN -1
    ELSE IF CollationWeight(Head(a)) > CollationWeight(Head(b)) THEN 1
    ELSE localeCompare(Tail(a), Tail(b))

(***************************************************************************)
(* BaseModule                                                              *)
(***************************************************************************)

(* this.svg before initSVG() has run. *)
NoSVG == [ready |-> FALSE, paths |-> <<>>]

(* The legend container before createLegendRow() has run. *)
NoLegend == [built |-> FALSE, items |-> <<>>, checkboxName |-> ""]

(* this.data before the data has been fetched. *)
NoData == [defined |-> FALSE, transfers |-> <<>>]

(* initSVG(): a fresh, empty drawing surface. *)
initSVG == [ready |-> TRUE, paths |-> <<>>]

(* plotPath(points, options): appends one path; its display is unset. *)
plotPath(s, points, options) ==
    [s EXCEPT !.paths = Append(@,
        [id |-> options.id, stroke |-> options.stroke,
         className |-> options.className, tooltip |-> options.tooltipInnerHTML,
         points |-> points, display |-> "unset"])]

(* createLegendRow(items, options): the legend row is rebuilt from items. *)
createLegendRow(items, options) ==
    [built |-> TRUE, items |-> items, checkboxName |-> options.checkboxName]

(***************************************************************************)
(* WorkerOutgoingTransfersModule                                           *)
(***************************************************************************)

(* The template literal `transfer-${id}`. *)
TransferId(id) == <<"transfer-">> \o id

(* style('display', visible ? null : 'none') *)
DisplayOf(visible) == IF visible THEN "unset" ELSE "none"

(* Mutation: the style is applied to every transfer line. *)
legendOnToggle_allLines(s, id, visible) ==
    IF ~s.ready
    THEN [svg |-> s, err |-> "TypeError"]
    ELSE [svg |-> [s EXCEPT !.paths =
                     [i \in DOMAIN @ |-> [@[i] EXCEPT !.display = DisplayOf(visible)]]],
          err |-> "none"]

(* Mutation: the display is flipped instead of set. *)
legendOnToggle_flip(s, id, visible) ==
    IF ~s.ready
    THEN [svg |-> s, err |-> "TypeError"]
    ELSE [svg |-> [s EXCEPT !.paths =
                     [i \in DOMAIN @ |->
                        IF @[i].id = TransferId(id)
                        THEN [@[i] EXCEPT !.display =
                                IF @ = "none" THEN "unset" ELSE "none"]
                        ELSE @[i]]],
          err |-> "none"]

(* legendOnToggle(id, visible): this.svg.selectAll('#transfer-<id>') and  *)
(* the display style set on every selected path.  Reading selectAll of an *)
(* absent this.svg throws.                                                *)
legendOnToggle(s, id, visible) ==
    IF ~s.ready
    THEN [svg |-> s, err |-> "TypeError"]
    ELSE [svg |-> [s EXCEPT !.paths =
                     [i \in DOMAIN @ |->
                        IF @[i].id = TransferId(id)
                        THEN [@[i] EXCEPT !.display = DisplayOf(visible)]
                        ELSE @[i]]],
          err |-> "none"]

(* Object.keys(transfers).map((worker, idx) => ({id, label, color})) *)
MapLegendItems(transfers) ==
    [k \in DOMAIN transfers |->
        [id    |-> escapeWorkerId(transfers[k][1]),
         label |-> transfers[k][1],
         color |-> getWorkerColor(transfers[k][1], k - 1)]]

(* One step of the stable sort: x goes behind every item that does not    *)
(* compare greater than it.                                               *)
RECURSIVE InsertByLabel(_, _)
InsertByLabel(sorted, x) ==
    IF sorted = <<>> THEN <<x>>
    ELSE IF localeCompare(Head(sorted).label, x.label) <= 0
         THEN <<Head(sorted)>> \o InsertByLabel(Tail(sorted), x)
         ELSE <<x>> \o sorted

(* .sort((a, b) => a.label.localeCompare(b.label)) *)
RECURSIVE SortByLabel(_)
SortByLabel(items) ==
    IF items = <<>> THEN <<>>
    ELSE InsertByLabel(SortByLabel(SubSeq(items, 1, Len(items) - 1)),
                       items[Len(items)])

(* The options initLegend passes to createLegendRow. *)
LegendOptions == [checkboxName |-> "outgoing-transfers"]

(* Mutation: the items are passed on in key order. *)
initLegend_unsorted(d, lg) ==
    IF ~d.defined
    THEN [legend |-> lg, err |-> "TypeError"]
    ELSE [legend |-> createLegendRow(MapLegendItems(d.transfers), LegendOptions),
          err |-> "none"]

(* Mutation: the colors are assigned by position in the sorted list. *)
initLegend_colorAfterSort(d, lg) ==
    IF ~d.defined
    THEN [legend |-> lg, err |-> "TypeError"]
    ELSE [legend |->
            createLegendRow(
                LET sorted == SortByLabel(MapLegendItems(d.transfers))
                IN  [k \in DOMAIN sorted |->
                       [sorted[k] EXCEPT !.color =
                          getWorkerColor(sorted[k].label, k - 1)]],
                LegendOptions),
          err |-> "none"]

(* Mutation: the first item is read before the list is handed over. *)
initLegend_firstItem(d, lg) ==
    IF ~d.defined \/ d.transfers = <<>>
    THEN [legend |-> lg, err |-> "TypeError"]
    ELSE [legend |->
            createLegendRow(SortByLabel(MapLegendItems(d.transfers)), LegendOptions),
          err |-> "none"]

(* initLegend(): Object.keys(this.data.transfers) throws when this.data   *)
(* is absent; otherwise the mapped, sorted items go to createLegendRow.   *)
initLegend(d, lg) ==
    IF ~d.defined
    THEN [legend |-> lg, err |-> "TypeError"]
    ELSE [legend |->
            createLegendRow(SortByLabel(MapLegendItems(d.transfers)), LegendOptions),
          err |-> "none"]

(* The options plot passes to plotPath for the entry at index idx. *)
PathOptions(worker, idx) ==
    [stroke           |-> getWorkerColor(worker, idx),
     className        |-> "transfer-line",
     id               |-> TransferId(escapeWorkerId(worker)),
     tooltipInnerHTML |-> worker]

(* Object.entries(transfers).forEach(([worker, points], idx) => plotPath) *)
(* over the first n entries, drawn on surface s.                          *)
RECURSIVE PlotEntries(_, _, _)
PlotEntries(s, transfers, n) ==
    IF n = 0 THEN s
    ELSE plotPath(PlotEntries(s, transfers, n - 1),
                  transfers[n][2], PathOptions(transfers[n][1], n - 1))

(* Mutation: no guard on this.data; the surface is set up first. *)
plot_noGuard(d, s) ==
    IF ~d.defined
    THEN [svg |-> initSVG, err |-> "TypeError"]
    ELSE [svg |-> PlotEntries(initSVG, d.transfers, Len(d.transfers)),
          err |-> "none"]

(* Mutation: the surface is not set up again when it exists. *)
plot_keepSurface(d, s) ==
    IF ~d.defined
    THEN [svg |-> s, err |-> "none"]
    ELSE [svg |-> PlotEntries(IF s.ready THEN s ELSE initSVG,
                              d.transfers, Len(d.transfers)),
          err |-> "none"]

(* plot(): nothing without this.data; otherwise initSVG() and one         *)
(* plotPath per entry.                                                    *)
plot(d, s) ==
    IF ~d.defined
    THEN [svg |-> s, err |-> "none"]
    ELSE [svg |-> PlotEntries(initSVG, d.transfers, Len(d.transfers)),
          err |-> "none"]

(***************************************************************************)
(* State machine                                                           *)
(***************************************************************************)

(* The ids a toggle may deliver: sanitized worker identifiers. *)
ToggleIds == { escapeWorkerId(w) : w \in WorkerNames }

Call(op, id, visible, label, err) ==
    [op |-> op, id |-> id, visible |-> visible, label |-> label, err |-> err]

Init ==
    /\ data = NoData
    /\ svg = NoSVG
    /\ legend = NoLegend
    /\ last = Call("constructor", <<>>, TRUE, <<>>, "none")

(* The fetched dataset arrives: this.data is set. *)
FetchData ==
    /\ ~data.defined
    /\ \E t \in Transfers : data' = [defined |-> TRUE, transfers |-> t]
    /\ last' = Call("fetchData", <<>>, TRUE, <<>>, "none")
    /\ UNCHANGED <<svg, legend>>

Plot ==
    /\ svg' = plot(data, svg).svg
    /\ last' = Call("plot", <<>>, TRUE, <<>>, plot(data, svg).err)
    /\ UNCHANGED <<data, legend>>

InitLegend ==
    /\ legend' = initLegend(data, legend).legend
    /\ last' = Call("initLegend", <<>>, TRUE, <<>>, initLegend(data, legend).err)
    /\ UNCHANGED <<data, svg>>

(* legendOnToggle called with any sanitized id. *)
LegendOnToggle ==
    \E id \in ToggleIds, visible \in BOOLEAN :
        /\ svg' = legendOnToggle(svg, id, visible).svg
        /\ last' = Call("legendOnToggle", id, visible, <<>>,
                        legendOnToggle(svg, id, visible).err)
        /\ UNCHANGED <<data, legend>>

(* The checkbox of legend item k is toggled: the onToggle callback given  *)
(* to createLegendRow hands (item.id, visible) to legendOnToggle.         *)
OnToggle ==
    \E k \in DOMAIN legend.items, visible \in BOOLEAN :
        /\ svg' = legendOnToggle(svg, legend.items[k].id, visible).svg
        /\ last' = Call("onToggle", legend.items[k].id, visible,
                        legend.items[k].label,
                        legendOnToggle(svg, legend.items[k].id, visible).err)
        /\ UNCHANGED <<data, legend>>

Next == FetchData \/ Plot \/ InitLegend \/ LegendOnToggle \/ OnToggle

Spec == Init /\ [][Next]_vars

(***************************************************************************)
(* Properties                                                              *)
(***************************************************************************)

IsToggle(c) == c.op \in {"legendOnToggle", "onToggle"}

(* Whether surface s holds a path whose element id is transfer-<id>. *)
HasPath(s, id) == \E i \in DOMAIN s.paths : s.paths[i].id = TransferId(id)

(* The (element id, color) pairs of the rendered paths, in drawing order. *)
PathKeys(s) == [i \in DOMAIN s.paths |-> <<s.paths[i].id, s.paths[i].stroke>>]

Workers == { data.transfers[k][1] : k \in DOMAIN data.transfers }

(* C1: when this.data is absent, initLegend() is skipped: no legend row   *)
(* is requested from the base and no error is raised.                     *)
C1_NoDataLegendSkipped ==
    (last.op = "initLegend" /\ ~data.defined)
        => (legend = NoLegend /\ last.err = "none")

(* C2: for a dataset with at least one worker, initLegend() hands the     *)
(* base exactly one item per worker key, with label the raw name and id   *)
(* its sanitized form, sorted ascending by label (in the order of the     *)
(* comparator, localeCompare) whatever the key order.                     *)
C2_LegendOnePerWorkerSorted ==
    (last.op = "initLegend" /\ data.defined /\ Len(data.transfers) >= 1)
        => /\ last.err = "none"
           /\ legend.built
           /\ Len(legend.items) = Len(data.transfers)
           /\ \A w \in Workers :
                Cardinality({ i \in DOMAIN legend.items :
                                 legend.items[i].label = w }) = 1
           /\ \A i \in DOMAIN legend.items :
                /\ legend.items[i].label \in Workers
                /\ legend.items[i].id = escapeWorkerId(legend.items[i].label)
           /\ \A i, j \in DOMAIN legend.items :
                i < j => localeCompare(legend.items[i].label,
                                       legend.items[j].label) < 0

C2_Witness ==
    /\ last.op = "initLegend"
    /\ data.defined
    /\ Len(data.transfers) = MaxWorkers
    /\ legend.built
    /\ \E k \in 1..(Len(data.transfers) - 1) :
         localeCompare(data.transfers[k][1], data.transfers[k + 1][1]) > 0
    /\ \E i \in DOMAIN legend.items :
         legend.items[i].id # legend.items[i].label

C4_ToggleSetsDisplayIdempotent ==
    (IsToggle(last) /\ HasPath(svg, last.id))
        => /\ last.err = "none"
           /\ \A i \in DOMAIN svg.paths :
                svg.paths[i].id = TransferId(last.id)
                    => svg.paths[i].display =
                         (IF last.visible THEN "unset" ELSE "none")
           /\ legendOnToggle(svg, last.id, last.visible).svg = svg

C4_Witness ==
    /\ IsToggle(last)
    /\ HasPath(svg, last.id)
    /\ last.visible
    /\ \E i \in DOMAIN svg.paths :
         svg.paths[i].id # TransferId(last.id) /\ svg.paths[i].display = "none"

(* C5: legendOnToggle(id, visible) with an id that no path of the drawing *)
(* surface carries raises no error and leaves the surface, paths and      *)
(* display states alike, as it was, for both values of visible.           *)
C5_ToggleUnknownIdNoOp ==
    [][ (IsToggle(last') /\ svg.ready /\ ~HasPath(svg, last'.id))
            => (svg' = svg /\ legend' = legend /\ last'.err = "none") ]_vars

C5_Witness ==
    /\ last.op = "legendOnToggle"
    /\ ~last.visible
    /\ svg.ready
    /\ Len(svg.paths) >= 2
    /\ ~HasPath(svg, last.id)
    /\ \E i \in DOMAIN svg.paths : svg.paths[i].display = "none"

(* C6: without this.data, plot() returns without initializing the surface *)
(* and without drawing: the surface stays as it was, and no error.        *)
C6_PlotWithoutDataNoOp ==
    (last.op = "plot" /\ ~data.defined)
        => (svg = NoSVG /\ last.err = "none")

C6_Witness == last.op = "plot" /\ ~data.defined /\ ~svg.ready

(* C7: on a dataset without worker keys, plot() and initLegend() complete *)
(* without error, no path is drawn and no legend item is produced.        *)
C7_EmptyDataset ==
    (data.defined /\ data.transfers = <<>>)
        => /\ last.op \in {"plot", "initLegend"} => last.err = "none"
           /\ svg.paths = <<>>
           /\ legend.items = <<>>
           /\ last.op = "plot" => svg.ready
           /\ last.op = "initLegend" => legend.built

C7_Witness ==
    /\ data.defined
    /\ data.transfers = <<>>
    /\ svg.ready
    /\ legend.built
    /\ last.op = "initLegend"

(* C8: with the dataset unchanged, plot() on a surface already plotted    *)
(* leaves the same paths (ids and colors, none twice), and initLegend()   *)
(* on a legend already built leaves the same item list.                   *)
C8_ReinvocationIdempotent ==
    [][ /\ (last'.op = "plot" /\ data.defined /\ svg.ready)
            => (PathKeys(svg') = PathKeys(svg) /\ Len(svg'.paths) = Len(data.transfers))
        /\ (last'.op = "initLegend" /\ data.defined /\ legend.built)
            => legend' = legend ]_vars

C8_Witness ==
    /\ last.op = "plot"
    /\ data.defined
    /\ Len(data.transfers) >= 2
    /\ legend.built
    /\ \A i \in DOMAIN svg.paths : svg.paths[i].display = "unset"

(* C9: for every worker, the legend item built by initLegend and the path *)
(* drawn by plot carry the same color, the one getWorkerColor gives for   *)
(* the worker's position in the key order, and the same sanitized id.     *)
C9_LegendAndPathAgree ==
    (legend.built /\ svg.ready)
        => \A k \in DOMAIN data.transfers :
             \E i \in DOMAIN legend.items :
                /\ legend.items[i].label = data.transfers[k][1]
                /\ legend.items[i].color = getWorkerColor(data.transfers[k][1], k - 1)
                /\ svg.paths[k].tooltip = legend.items[i].label
                /\ svg.paths[k].stroke = legend.items[i].color
                /\ svg.paths[k].id = TransferId(legend.items[i].id)

C9_Witness ==
    /\ legend.built
    /\ svg.ready
    /\ Len(data.transfers) >= 2
    /\ \E i \in DOMAIN legend.items :
         legend.items[i].label # data.transfers[i][1]

====
